---- MODULE Spec2Model ----
(***************************************************************************)
(* Zettlr: the spellchecker overlay mode (tokenizer + dictionary lookup    *)
(* cache), the per-line annotation records built on top of it, the         *)
(* recent-documents provider and the Editor component.                     *)
(*                                                                         *)
(* A string is a sequence of characters; a character is a one-character    *)
(* string, and a non-ASCII character is written by its code point          *)
(* ("U+2019").  Offsets are 0-based as in the source (stream.pos).         *)
(***************************************************************************)
EXTENDS Integers, Sequences, FiniteSets, TLC

VARIABLES
  \* --- spellchecker overlay: one line being tokenized by CodeMirror
  line,             \* stream.string
  pos,              \* stream.pos
  tokens,           \* the tokens produced so far for `line`
  linkCfg,          \* config.zettlr.zettelkasten: [linkStart, linkEnd]
  \* --- dictionary lookup cache and its external collaborator
  spellcheckCache,  \* the hashmap: sane term -> BOOLEAN (partial function)
  dictReady,        \* main process: dictionary loaded?
  dictWords,        \* main process: the set of correct terms
  ipcQueue,         \* 'dictionary-provider' messages on their way to the renderer
  lastCheck,        \* history: the last call of check and what it did
  sinceInv,         \* history: sane terms checked since the last invalidation
  dropped,          \* history: the terms the last invalidation threw away
  \* --- line records of the annotation pipeline
  records,          \* sequence of [rawText, spans, dirty]
  lastOp,           \* history: the last pipeline operation and its result
  \* --- recent documents provider
  recentDocs,       \* this._recentDocs (documents identified by their path)
  recentCall,       \* history: the last call of add or clear and what its listeners saw
  \* --- the Editor component, the store it watches and the main process
  activeFile,       \* $store.state.activeFile: a path, or NoFile for null
  openFiles,        \* $store.state.openFiles: the paths of the open files
  cmDocs,           \* the document objects created so far: id -> [path, value, clean]
  openDocuments,    \* data.openDocuments: sequence of document ids
  currentlyFetchingFiles, \* data.currentlyFetchingFiles: sequence of paths
  activeDocument,   \* data.activeDocument: a document id, or NoDoc for null
  editorDoc,        \* the document the editor shows: an id, or NoDoc for an empty one
  readOnly,         \* editor.readOnly
  pendingFetch,     \* get-file-contents requests not yet settled: path -> count
  pendingSave,      \* file-save requests not yet settled: sequence of descriptors
  edLast            \* history: the last Editor step and what it did

vars == <<line, pos, tokens, linkCfg, spellcheckCache, dictReady, dictWords,
          ipcQueue, lastCheck, sinceInv, dropped, records, lastOp, recentDocs,
          recentCall, activeFile, openFiles, cmDocs, openDocuments,
          currentlyFetchingFiles, activeDocument, editorDoc, readOnly,
          pendingFetch, pendingSave, edLast>>

tokVars   == <<line, pos, tokens, linkCfg>>
cacheVars == <<spellcheckCache, dictReady, dictWords, ipcQueue, lastCheck, sinceInv,
               dropped>>
pipeVars  == <<records, lastOp>>
recentVars == <<recentDocs, recentCall>>
edVars    == <<activeFile, openFiles, cmDocs, openDocuments, currentlyFetchingFiles,
               activeDocument, editorDoc, readOnly, pendingFetch, pendingSave, edLast>>

(***************************************************************************)
(* Bounds                                                                  *)
(***************************************************************************)
MaxPieces == 3
MaxQueue == 2
MaxLines == 2
MaxPath == 102

\* the length the list of recent documents is cut to
MaxRecent == 100

\* the Editor: document objects created, edits to one document, file-save
\* requests in flight at once
MaxDocs == 2
MaxEdits == 1
MaxSaves == 1

\* the paths of the files the store can hold
Paths == { 1, 2 }

(***************************************************************************)
(* Character sets                                                          *)
(***************************************************************************)
\* the delimiter string; its non-ASCII members and the backtick (U+0060) are
\* written by code point
delim ==
  { "!", "\"", "#", "$", "%", "&", "(", ")", "*", "+", ",", "-", ".", "/",
    ":", ";", "<", "=", ">", "U+00BF", "?", "@", "[", "\\", "]", "^", "_",
    "U+0060", "{", "|", "}", "~", " ", "U+00A0", "U+00AB", "U+201E", "U+300C",
    "U+300E", "U+300F", "U+2013", "U+2014", "U+2026", "U+00F7" }

\* every quotation character (U+202F, a narrow NBSP, is among them)
allQuotes ==
  { "U+2018", "U+2019", "U+201A", "U+202F", "U+203A", "U+2039", "U+00AB",
    "U+00BB", "U+201E", "U+201C", "U+201D", "U+300C", "U+300D", "U+300E",
    "U+300F", "\"", "'" }

Digits == { "0", "1", "2", "3", "4", "5", "6", "7", "8", "9" }

(***************************************************************************)
(* String helpers                                                          *)
(***************************************************************************)
\* s.substring(from, to) with 0-based offsets
Slice(s, from, to) == SubSeq(s, from + 1, to)

\* does `pat` occur in s at 0-based offset p?
StartsAt(s, p, pat) ==
  /\ p + Len(pat) <= Len(s)
  /\ \A i \in 1..Len(pat) : s[p + i] = pat[i]

Contains(s, pat) == \E p \in 0..Len(s) : StartsAt(s, p, pat)

RECURSIVE Flatten(_)
Flatten(ss) == IF ss = <<>> THEN <<>> ELSE Head(ss) \o Flatten(Tail(ss))

\* String.prototype.replace(/pat/g, rep) for a literal pattern
RECURSIVE ReplaceAll(_, _, _)
ReplaceAll(s, pat, rep) ==
  IF s = <<>> THEN <<>>
  ELSE IF pat # <<>> /\ StartsAt(s, 0, pat)
       THEN rep \o ReplaceAll(Slice(s, Len(pat), Len(s)), pat, rep)
       ELSE <<Head(s)>> \o ReplaceAll(Tail(s), pat, rep)

Min(S) == CHOOSE x \in S : \A y \in S : x <= y

(***************************************************************************)
(* stream.match(re): a match counts only when it starts at stream.pos.     *)
(* Each matcher yields the length of its match at offset p, 0 for none.    *)
(***************************************************************************)
\* open, then the fewest (>= minK) characters, then close: /open.+?close/
LazyMatch(s, p, open, minK, close) ==
  LET from == p + Len(open)
      ks   == { k \in minK..Len(s) : StartsAt(s, from + k, close) }
  IN  IF StartsAt(s, p, open) /\ ks # {}
      THEN Len(open) + Min(ks) + Len(close)
      ELSE 0

\* new RegExp(ls + '.+?' + le), ls and le escaped to literals
LinkMatch(s, p, ls, le) == LazyMatch(s, p, ls, 1, le)

\* offset of the first character at or after p that is in `stop`, else Len(s)
RunEnd(s, p, stop) ==
  Min({ q \in p..Len(s) : q = Len(s) \/ s[q + 1] \in stop })

\* zknTagRE: '#', an optional second '#', one or more tag characters, an
\* optional closing '#'
TagMatch(s, p) ==
  IF ~StartsAt(s, p, <<"#">>) THEN 0
  ELSE LET b == IF StartsAt(s, p + 1, <<"#">>) THEN p + 2 ELSE p + 1
           e == RunEnd(s, b, delim)
       IN  IF e = b THEN 0
           ELSE IF StartsAt(s, e, <<"#">>) THEN e + 1 - p ELSE e - p

\* codeRE: a backtick, the fewest characters, a backtick
CodeMatch(s, p) == LazyMatch(s, p, <<"U+0060">>, 0, <<"U+0060">>)

\* footnoteRefRE: '[^', the fewest (at least one) characters, ']'
FootnoteMatch(s, p) == LazyMatch(s, p, <<"[", "^">>, 1, <<"]">>)

NoMatch == [kind |-> "None", len |-> 0]

\* the four special-span matchers in the order the token function tries them
SpecialMatchTagFirst(s, p, ls, le) ==
  IF TagMatch(s, p) > 0 THEN [kind |-> "Tag", len |-> TagMatch(s, p)]
  ELSE IF ls # <<>> /\ LinkMatch(s, p, ls, le) > 0
       THEN [kind |-> "Link", len |-> LinkMatch(s, p, ls, le)]
  ELSE IF CodeMatch(s, p) > 0 THEN [kind |-> "Code", len |-> CodeMatch(s, p)]
  ELSE IF FootnoteMatch(s, p) > 0
       THEN [kind |-> "FootnoteRef", len |-> FootnoteMatch(s, p)]
  ELSE NoMatch

SpecialMatch(s, p, ls, le) ==
  IF ls # <<>> /\ LinkMatch(s, p, ls, le) > 0
       THEN [kind |-> "Link", len |-> LinkMatch(s, p, ls, le)]
  ELSE IF TagMatch(s, p) > 0 THEN [kind |-> "Tag", len |-> TagMatch(s, p)]
  ELSE IF CodeMatch(s, p) > 0 THEN [kind |-> "Code", len |-> CodeMatch(s, p)]
  ELSE IF FootnoteMatch(s, p) > 0
       THEN [kind |-> "FootnoteRef", len |-> FootnoteMatch(s, p)]
  ELSE NoMatch

\* stream.next() on a delimiter
DelimAdvanceTwice(p) == p + 2

DelimAdvance(p) == p + 1

\* /\d+/.test(word)
HasDigit(word) == \E i \in 1..Len(word) : word[i] \in Digits

\* /https?|www\./.test(word)
IsLinkWord(word) ==
  \/ Contains(word, <<"h", "t", "t", "p">>)
  \/ Contains(word, <<"w", "w", "w", ".">>)

\* the two substr calls that take one quotation character off each end
StripQuotes(word) ==
  LET w1 == IF word # <<>> /\ word[1] \in allQuotes THEN Tail(word) ELSE word
  IN  IF w1 # <<>> /\ w1[Len(w1)] \in allQuotes
      THEN SubSeq(w1, 1, Len(w1) - 1)
      ELSE w1

\* One call of the overlay's token(stream) at offset p of s (p < Len(s)),
\* without the dictionary lookup: which branch returned (kind), where the
\* stream stands afterwards (end), and the word handed to check (Word only).
Token(s, p, ls, le) ==
  LET ch == s[p + 1]
      sm == SpecialMatch(s, p, ls, le)
      tk(k, e, w) == [kind |-> k, start |-> p, end |-> e, word |-> w]
  IN  IF sm.len > 0 THEN tk(sm.kind, p + sm.len, <<>>)
      ELSE IF ch \in delim THEN tk("Delim", DelimAdvance(p), <<>>)
      ELSE LET we   == RunEnd(s, p, delim)
               word == Slice(s, p, we)
           IN  IF HasDigit(word) THEN tk("Number", we, <<>>)
               ELSE IF IsLinkWord(word) THEN tk("URL", RunEnd(s, we, {" "}), <<>>)
               ELSE tk("Word", we, StripQuotes(word))

(***************************************************************************)
(* Dictionary lookup cache                                                 *)
(***************************************************************************)
\* the literal the replace in check searches for: nine quotation characters
\* in a row (the pattern is no character class)
SmartQuotes ==
  << "U+2019", "U+2018", "U+201A", "U+2039", "U+203A", "U+00BB", "U+201C",
     "U+201D", "U+300D" >>

SaneTerm(term) == ReplaceAll(term, SmartQuotes, <<"'">>)

EmptyCache == <<>>

CachePut(cache, k, v) ==
  [x \in (DOMAIN cache) \cup {k} |-> IF x = k THEN v ELSE cache[x]]

\* ipcRenderer.sendSync('dictionary-provider', {command: 'check', term}):
\* the main process answers "undefined" until its dictionary is loaded
DictionaryCheck(ready, words, term) ==
  IF ~ready THEN "undefined" ELSE IF term \in words THEN "true" ELSE "false"

\* check with the "not ready" answer written to the cache like any other
CheckCachesUndefined(cache, term, ready, words) ==
  LET saneTerm == SaneTerm(term)
      out(r, c, q) == [result |-> r, cache |-> c, queried |-> q, term |-> saneTerm]
  IN  IF saneTerm \in DOMAIN cache
      THEN out(cache[saneTerm], cache, FALSE)
      ELSE LET correct == DictionaryCheck(ready, words, saneTerm)
           IN  out(correct # "false", CachePut(cache, saneTerm, correct # "false"), TRUE)

\* check with a truthiness test for the cache hit (a cached false misses)
CheckTruthyLookup(cache, term, ready, words) ==
  LET saneTerm == SaneTerm(term)
      out(r, c, q) == [result |-> r, cache |-> c, queried |-> q, term |-> saneTerm]
  IN  IF saneTerm \in DOMAIN cache /\ cache[saneTerm]
      THEN out(cache[saneTerm], cache, FALSE)
      ELSE LET correct == DictionaryCheck(ready, words, saneTerm)
           IN  IF correct = "undefined"
               THEN out(TRUE, cache, TRUE)
               ELSE out(correct = "true", CachePut(cache, saneTerm, correct = "true"), TRUE)

\* check(term): the result, the cache afterwards, and whether the external
\* dictionary was asked
Check(cache, term, ready, words) ==
  LET saneTerm == SaneTerm(term)
      out(r, c, q) == [result |-> r, cache |-> c, queried |-> q, term |-> saneTerm]
  IN  IF saneTerm \in DOMAIN cache
      THEN out(cache[saneTerm], cache, FALSE)
      ELSE LET correct == DictionaryCheck(ready, words, saneTerm)
           IN  IF correct = "undefined"
               THEN out(TRUE, cache, TRUE)
               ELSE out(correct = "true", CachePut(cache, saneTerm, correct = "true"), TRUE)

\* a listener that keeps the cache whatever the message
OnDictionaryProviderNoClear(cache, message) == cache

\* the 'dictionary-provider' listener: the cache after a message
OnDictionaryProvider(cache, message) ==
  IF message.command = "invalidate-dict" THEN EmptyCache ELSE cache

(***************************************************************************)
(* Inputs                                                                  *)
(***************************************************************************)
\* the fragments lines are put together from
Pieces ==
  { <<"a">>, <<" ">>, <<"#">>, <<"U+0060">>, <<"[", "^">>, <<"]">>,
    <<"[", "[">>, <<"]", "]">>, <<"1">>, <<"U+201D">>, <<"h", "t", "t", "p">> }

RECURSIVE LinesOf(_)
LinesOf(n) ==
  IF n = 0 THEN { <<>> }
  ELSE LET prev == LinesOf(n - 1)
       IN  prev \cup { l \o p : l \in prev, p \in Pieces }

Lines == LinesOf(MaxPieces)

\* zettelkasten.linkStart / linkEnd as the user may have configured them
LinkConfigs ==
  { [linkStart |-> <<"[", "[">>, linkEnd |-> <<"]", "]">>],
    [linkStart |-> <<>>, linkEnd |-> <<>>],
    [linkStart |-> <<"#">>, linkEnd |-> <<"#">>],
    [linkStart |-> <<"#">>, linkEnd |-> <<>>] }

\* the terms check is called with directly
Terms ==
  { <<"b">>, <<"a", "'">>, <<"a">> \o SmartQuotes }

SaneTerms == { SaneTerm(t) : t \in Terms }

(***************************************************************************)
(* History records                                                         *)
(***************************************************************************)
NoCheck ==
  [called |-> FALSE, tick |-> FALSE, term |-> <<>>, result |-> TRUE,
   queried |-> FALSE, answer |-> "none", first |-> FALSE,
   prevTerm |-> <<>>, prevAnswer |-> "none"]

\* what a call of check leaves in lastCheck
CheckRecord(term) ==
  LET c == Check(spellcheckCache, term, dictReady, dictWords)
  IN  [called |-> TRUE, tick |-> ~lastCheck.tick, term |-> c.term,
       result |-> c.result, queried |-> c.queried,
       answer |-> IF c.queried
                  THEN DictionaryCheck(dictReady, dictWords, c.term)
                  ELSE "none",
       first |-> c.term \notin sinceInv,
       prevTerm |-> lastCheck.term, prevAnswer |-> lastCheck.answer]

NoOp ==
  [op |-> "none", index |-> 0, result |-> <<>>, scanned |-> FALSE,
   prevOp |-> "none"]

(***************************************************************************)
(* The overlay tokenizing one line: CodeMirror calls token(stream) until   *)
(* the stream is at the end of the line (never on an empty line).          *)
(***************************************************************************)
Styled(t, style) ==
  [kind |-> t.kind, start |-> t.start, end |-> t.end, word |-> t.word,
   style |-> style]

CacheIdle ==
  /\ spellcheckCache = EmptyCache
  /\ ipcQueue = <<>>
  /\ lastCheck = NoCheck
  /\ sinceInv = {}
  /\ dropped = {}

\* a call of check(term) acting on the cache
DoCheck(term) ==
  LET c == Check(spellcheckCache, term, dictReady, dictWords)
  IN  /\ spellcheckCache' = c.cache
      /\ lastCheck' = CheckRecord(term)
      /\ sinceInv' = sinceInv \cup { c.term }

\* the recent documents provider before any call (constructor: empty list)
NoCall == [op |-> "none", doc |-> 0, size |-> 0, known |-> FALSE, emits |-> <<>>]

RecentIdle ==
  /\ recentDocs = <<>>
  /\ recentCall = NoCall

\* the Editor component as created by data(): nothing loaded, nothing shown
NoFile == 0
NoDoc == 0
NoStep == [op |-> "none", path |-> NoFile, docs |-> {}, sent |-> <<>>]
NoneFetching == [p \in Paths |-> 0]

EdIdle ==
  /\ activeFile = NoFile
  /\ openFiles = {}
  /\ cmDocs = <<>>
  /\ openDocuments = <<>>
  /\ currentlyFetchingFiles = <<>>
  /\ activeDocument = NoDoc
  /\ editorDoc = NoDoc
  /\ readOnly = FALSE
  /\ pendingFetch = NoneFetching
  /\ pendingSave = <<>>
  /\ edLast = NoStep

TokIdle ==
  /\ line = <<>>
  /\ linkCfg = [linkStart |-> <<"[", "[">>, linkEnd |-> <<"]", "]">>]
  /\ pos = 0
  /\ tokens = <<>>

InitTok ==
  /\ line \in Lines
  /\ linkCfg \in LinkConfigs
  /\ pos = 0
  /\ tokens = <<>>
  /\ CacheIdle
  /\ dictReady \in BOOLEAN
  /\ dictWords = { <<"a">>, <<"a", "a">> }
  /\ records = <<>>
  /\ lastOp = NoOp
  /\ RecentIdle
  /\ EdIdle

TokenStep ==
  /\ pos < Len(line)
  /\ LET t == Token(line, pos, linkCfg.linkStart, linkCfg.linkEnd)
         c == Check(spellcheckCache, t.word, dictReady, dictWords)
     IN  /\ pos' = t.end
         /\ IF t.kind = "Word"
            THEN /\ tokens' = Append(tokens,
                        Styled(t, IF c.result THEN "null" ELSE "spell-error"))
                 /\ DoCheck(t.word)
            ELSE /\ tokens' = Append(tokens, Styled(t, "null"))
                 /\ UNCHANGED <<spellcheckCache, lastCheck, sinceInv>>
  /\ UNCHANGED <<line, linkCfg, dictReady, dictWords, ipcQueue, dropped,
                 records, lastOp, recentVars, edVars>>

NextTok == TokenStep

SpecTok == InitTok /\ [][NextTok]_vars

\* the spans of a token sequence: every token but the lone delimiters
Spans(toks) == SelectSeq(toks, LAMBDA t : t.kind # "Delim")

(***************************************************************************)
(* The cache between the overlay (check), the main process (the dictionary *)
(* and its notifications) and the renderer's message listener.             *)
(***************************************************************************)
InitCache ==
  /\ TokIdle
  /\ CacheIdle
  /\ dictReady = FALSE
  /\ dictWords = {}
  /\ records = <<>>
  /\ lastOp = NoOp
  /\ RecentIdle
  /\ EdIdle

\* the overlay checks a word
CheckTerm(term) ==
  /\ DoCheck(term)
  /\ UNCHANGED <<dictReady, dictWords, ipcQueue, dropped>>
  /\ UNCHANGED <<tokVars, pipeVars, recentVars, edVars>>

\* main process: the dictionary is (re)loaded or changed, and the renderer
\* is told to invalidate
DictionaryChange(ready, words) ==
  /\ Len(ipcQueue) < MaxQueue
  /\ dictReady' = ready
  /\ dictWords' = words
  /\ ipcQueue' = Append(ipcQueue, [command |-> "invalidate-dict"])
  /\ UNCHANGED <<spellcheckCache, lastCheck, sinceInv, dropped>>
  /\ UNCHANGED <<tokVars, pipeVars, recentVars, edVars>>

\* main process: any other 'dictionary-provider' message
OtherMessage ==
  /\ Len(ipcQueue) < MaxQueue
  /\ ipcQueue' = Append(ipcQueue, [command |-> "other"])
  /\ UNCHANGED <<spellcheckCache, dictReady, dictWords, lastCheck, sinceInv, dropped>>
  /\ UNCHANGED <<tokVars, pipeVars, recentVars, edVars>>

\* renderer: the listener runs for the message at the head of the queue
HandleMessage ==
  /\ ipcQueue # <<>>
  /\ ipcQueue' = Tail(ipcQueue)
  /\ spellcheckCache' = OnDictionaryProvider(spellcheckCache, Head(ipcQueue))
  /\ IF Head(ipcQueue).command = "invalidate-dict"
     THEN sinceInv' = {} /\ dropped' = DOMAIN spellcheckCache
     ELSE UNCHANGED <<sinceInv, dropped>>
  /\ UNCHANGED <<dictReady, dictWords, lastCheck>>
  /\ UNCHANGED <<tokVars, pipeVars, recentVars, edVars>>

NextCache ==
  \/ \E term \in Terms : CheckTerm(term)
  \/ \E ready \in BOOLEAN, words \in SUBSET SaneTerms : DictionaryChange(ready, words)
  \/ OtherMessage
  \/ HandleMessage

SpecCache == InitCache /\ [][NextCache]_vars

(***************************************************************************)
(* Annotation pipeline and incremental re-scan controller: one Line Record *)
(* per buffer line.  Line indices are 0-based; the record of line i is     *)
(* records[i + 1].                                                         *)
(***************************************************************************)
\* the texts a buffer line may hold
DocLines == { <<"a">>, <<"#", "a", " ", "a">> }

\* the dictionary once it is loaded
DocWords == { <<"a">> }

RECURSIVE TextsOf(_)
TextsOf(n) ==
  IF n = 0 THEN { <<>> }
  ELSE LET prev == TextsOf(n - 1)
       IN  prev \cup { Append(d, t) : d \in prev, t \in DocLines }

\* one call of token at offset p with its dictionary lookup: the styled
\* token and the cache afterwards
ScanStep(s, p, cfg, cache, ready, words) ==
  LET t == Token(s, p, cfg.linkStart, cfg.linkEnd)
      c == Check(cache, t.word, ready, words)
  IN  IF t.kind = "Word"
      THEN [tok |-> Styled(t, IF c.result THEN "null" ELSE "spell-error"),
            cache |-> c.cache]
      ELSE [tok |-> Styled(t, "null"), cache |-> cache]

\* one scan of a line from offset p: token after token, each word checked
\* against the cache; yields the tokens and the cache afterwards
RECURSIVE ScanFrom(_, _, _, _, _, _, _)
ScanFrom(s, p, cfg, cache, ready, words, acc) ==
  IF p >= Len(s) THEN [tokens |-> acc, cache |-> cache]
  ELSE CHOOSE r \in { ScanFrom(s, x.tok.end, cfg, x.cache, ready, words,
                               Append(acc, x.tok)) :
                      x \in { ScanStep(s, p, cfg, cache, ready, words) } } : TRUE

\* the Annotation Pipeline on one line: its spans and the cache afterwards
ScanLine(text, cfg, cache, ready, words) ==
  CHOOSE r \in { [spans |-> Spans(x.tokens), cache |-> x.cache] :
                 x \in { ScanFrom(text, 0, cfg, cache, ready, words, <<>>) } } : TRUE

\* document load: one scan of every line, every record Clean
RECURSIVE ScanAll(_, _, _, _, _, _)
ScanAll(texts, cfg, cache, ready, words, acc) ==
  IF texts = <<>> THEN [records |-> acc, cache |-> cache]
  ELSE CHOOSE r \in { ScanAll(Tail(texts), cfg, x.cache, ready, words,
                              Append(acc, [rawText |-> Head(texts),
                                           spans |-> x.spans,
                                           dirty |-> FALSE])) :
                      x \in { ScanLine(Head(texts), cfg, cache, ready, words) } } : TRUE

InRange(recs, i) == 0 <= i /\ i < Len(recs)

AllDirty(recs) == [k \in DOMAIN recs |-> [recs[k] EXCEPT !.dirty = TRUE]]

\* an edit of line i that leaves the record Clean
EditRecordsKeepsClean(recs, i, text) ==
  [recs EXCEPT ![i + 1] = [@ EXCEPT !.rawText = text]]

\* an edit of line i that marks the whole document Dirty
EditRecordsMarksAll(recs, i, text) ==
  AllDirty([recs EXCEPT ![i + 1] = [@ EXCEPT !.rawText = text]])

\* buffer change touching line i alone: that record becomes Dirty
EditRecords(recs, i, text) ==
  [recs EXCEPT ![i + 1] = [@ EXCEPT !.rawText = text, !.dirty = TRUE]]

\* a line inserted at index i: a new Dirty record, and the records below it
\* shift by one and become Dirty
InsertRecords(recs, i, text) ==
  SubSeq(recs, 1, i)
    \o <<[rawText |-> text, spans |-> <<>>, dirty |-> TRUE]>>
    \o AllDirty(SubSeq(recs, i + 1, Len(recs)))

\* line i deleted: its record goes, the records below it shift and become Dirty
DeleteRecords(recs, i) ==
  SubSeq(recs, 1, i) \o AllDirty(SubSeq(recs, i + 2, Len(recs)))

\* markDirty(lineIndex): forced re-scan
MarkDirtyRecords(recs, i) == [recs EXCEPT ![i + 1] = [@ EXCEPT !.dirty = TRUE]]

\* getSpans that hands out the cached spans whatever the record's state
GetSpansStale(recs, i, cfg, cache, ready, words) ==
  IF ~InRange(recs, i)
  THEN [records |-> recs, cache |-> cache, result |-> <<>>, scanned |-> FALSE]
  ELSE [records |-> recs, cache |-> cache, result |-> recs[i + 1].spans,
        scanned |-> FALSE]

\* getSpans that serves a vanished index from the last line of the buffer
GetSpansClamped(recs, i, cfg, cache, ready, words) ==
  LET k == IF i >= Len(recs) THEN Len(recs) - 1 ELSE i
  IN  IF ~InRange(recs, k)
      THEN [records |-> recs, cache |-> cache, result |-> <<>>, scanned |-> FALSE]
      ELSE IF recs[k + 1].dirty
      THEN LET r == ScanLine(recs[k + 1].rawText, cfg, cache, ready, words)
           IN  [records |-> [recs EXCEPT ![k + 1] =
                               [@ EXCEPT !.spans = r.spans, !.dirty = FALSE]],
                cache |-> r.cache, result |-> r.spans, scanned |-> TRUE]
      ELSE [records |-> recs, cache |-> cache, result |-> recs[k + 1].spans,
            scanned |-> FALSE]

\* getSpans(lineIndex): no such line -> empty sequence, nothing touched; a
\* Dirty line is scanned first (spans replaced, record Clean); a Clean line
\* answers from its record
GetSpansResult(recs, i, cfg, cache, ready, words) ==
  IF ~InRange(recs, i)
  THEN [records |-> recs, cache |-> cache, result |-> <<>>, scanned |-> FALSE]
  ELSE IF recs[i + 1].dirty
  THEN LET r == ScanLine(recs[i + 1].rawText, cfg, cache, ready, words)
       IN  [records |-> [recs EXCEPT ![i + 1] =
                           [@ EXCEPT !.spans = r.spans, !.dirty = FALSE]],
            cache |-> r.cache, result |-> r.spans, scanned |-> TRUE]
  ELSE [records |-> recs, cache |-> cache, result |-> recs[i + 1].spans,
        scanned |-> FALSE]

\* every step of Spec leaves its own description in lastOp
Op(name, i, result, scanned) ==
  [op |-> name, index |-> i, result |-> result, scanned |-> scanned,
   prevOp |-> lastOp.op]

Init ==
  /\ TokIdle
  /\ CacheIdle
  /\ dictReady = FALSE
  /\ dictWords = {}
  /\ records = <<>>
  /\ lastOp = NoOp
  /\ RecentIdle
  /\ EdIdle

pipeFrame == <<line, pos, tokens, linkCfg, lastCheck, sinceInv, dropped, recentVars,
              edVars>>

LoadDocument(texts) ==
  /\ lastOp.op = "none"
  /\ LET r == ScanAll(texts, linkCfg, spellcheckCache, dictReady, dictWords, <<>>)
     IN  /\ records' = r.records
         /\ spellcheckCache' = r.cache
  /\ lastOp' = Op("load", 0, <<>>, TRUE)
  /\ UNCHANGED <<dictReady, dictWords, ipcQueue, pipeFrame>>

EditLine(i, text) ==
  /\ lastOp.op # "none"
  /\ InRange(records, i)
  /\ records' = EditRecords(records, i, text)
  /\ lastOp' = Op("edit", i, <<>>, FALSE)
  /\ UNCHANGED <<spellcheckCache, dictReady, dictWords, ipcQueue, pipeFrame>>

InsertLine(i, text) ==
  /\ lastOp.op # "none"
  /\ 0 <= i /\ i <= Len(records)
  /\ Len(records) < MaxLines
  /\ records' = InsertRecords(records, i, text)
  /\ lastOp' = Op("insert", i, <<>>, FALSE)
  /\ UNCHANGED <<spellcheckCache, dictReady, dictWords, ipcQueue, pipeFrame>>

DeleteLine(i) ==
  /\ lastOp.op # "none"
  /\ InRange(records, i)
  /\ records' = DeleteRecords(records, i)
  /\ lastOp' = Op("delete", i, <<>>, FALSE)
  /\ UNCHANGED <<spellcheckCache, dictReady, dictWords, ipcQueue, pipeFrame>>

MarkDirty(i) ==
  /\ lastOp.op # "none"
  /\ InRange(records, i)
  /\ records' = MarkDirtyRecords(records, i)
  /\ lastOp' = Op("markDirty", i, <<>>, FALSE)
  /\ UNCHANGED <<spellcheckCache, dictReady, dictWords, ipcQueue, pipeFrame>>

GetSpans(i) ==
  /\ lastOp.op # "none"
  /\ LET r == GetSpansResult(records, i, linkCfg, spellcheckCache, dictReady, dictWords)
     IN  /\ records' = r.records
         /\ spellcheckCache' = r.cache
         /\ lastOp' = Op("getSpans", i, r.result, r.scanned)
  /\ UNCHANGED <<dictReady, dictWords, ipcQueue, pipeFrame>>

\* main process: the dictionary finishes loading and the renderer is told
\* to invalidate
DictionaryLoaded ==
  /\ lastOp.op # "none"
  /\ ~dictReady
  /\ Len(ipcQueue) < MaxQueue
  /\ dictReady' = TRUE
  /\ dictWords' = DocWords
  /\ ipcQueue' = Append(ipcQueue, [command |-> "invalidate-dict"])
  /\ lastOp' = Op("dictionary", 0, <<>>, FALSE)
  /\ UNCHANGED <<spellcheckCache, records, pipeFrame>>

\* renderer: the listener runs; Line Records are not touched by it
PipeHandleMessage ==
  /\ ipcQueue # <<>>
  /\ ipcQueue' = Tail(ipcQueue)
  /\ spellcheckCache' = OnDictionaryProvider(spellcheckCache, Head(ipcQueue))
  /\ lastOp' = Op("message", 0, <<>>, FALSE)
  /\ UNCHANGED <<dictReady, dictWords, records, pipeFrame>>

Next ==
  \/ \E texts \in TextsOf(MaxLines) : LoadDocument(texts)
  \/ \E i \in 0..MaxLines, text \in DocLines : EditLine(i, text)
  \/ \E i \in 0..MaxLines, text \in DocLines : InsertLine(i, text)
  \/ \E i \in 0..MaxLines : DeleteLine(i)
  \/ \E i \in 0..MaxLines : MarkDirty(i)
  \/ \E i \in 0..MaxLines : GetSpans(i)
  \/ DictionaryLoaded
  \/ PipeHandleMessage

Spec == Init /\ [][Next]_vars

(***************************************************************************)
(* Claims about the Line Records (Spec)                                    *)
(***************************************************************************)
\* the record of line i
Rec(recs, i) == recs[i + 1]

\* C1: a record becomes Dirty on an edit of its line, on markDirty, and on
\* an insertion or deletion that shifts its index; a Dirty record becomes
\* Clean only in a getSpans step that scanned that very line, and it then
\* holds the spans of that scan.
C1_DirtyCleanTransitions ==
  [][ /\ lastOp'.op \in {"edit", "markDirty"} => Rec(records', lastOp'.index).dirty
      /\ lastOp'.op \in {"insert", "delete"}
           => \A k \in DOMAIN records' : k > lastOp'.index => records'[k].dirty
      /\ \A k \in (DOMAIN records) \cap (DOMAIN records') :
           (records[k].dirty /\ ~records'[k].dirty)
             => /\ lastOp'.op = "getSpans"
                /\ lastOp'.index = k - 1
                /\ lastOp'.scanned
                /\ records'[k].spans = lastOp'.result
    ]_vars

\* after an insertion or deletion, one shifted line has been scanned and is
\* Clean again while another record is still Dirty
C1_Witness ==
  /\ lastOp.op = "getSpans"
  /\ lastOp.scanned
  /\ lastOp.prevOp \in {"insert", "delete"}
  /\ InRange(records, lastOp.index)
  /\ ~Rec(records, lastOp.index).dirty
  /\ \E k \in DOMAIN records : records[k].dirty

\* C2: getSpans on a Dirty line scans it first and returns the fresh spans;
\* on a Clean line it returns the record's spans without a scan; either way
\* the line is Clean when its spans are handed out.
C2_NoDirtyRead ==
  [][ (lastOp'.op = "getSpans" /\ InRange(records, lastOp'.index))
        => LET rec == Rec(records, lastOp'.index)
           IN  /\ ~Rec(records', lastOp'.index).dirty
               /\ lastOp'.result = Rec(records', lastOp'.index).spans
               /\ rec.dirty
                    => /\ lastOp'.scanned
                       /\ lastOp'.result =
                            ScanLine(rec.rawText, linkCfg, spellcheckCache,
                                     dictReady, dictWords).spans
               /\ ~rec.dirty
                    => /\ ~lastOp'.scanned
                       /\ lastOp'.result = rec.spans
                       /\ records' = records
    ]_vars

\* an edited line is read: it is scanned and its new spans are returned
C2_Witness ==
  /\ lastOp.op = "getSpans"
  /\ lastOp.prevOp = "edit"
  /\ lastOp.scanned
  /\ InRange(records, lastOp.index)
  /\ lastOp.result = Rec(records, lastOp.index).spans
  /\ Len(lastOp.result) = 2

\* C3: an edit of one line changes that record alone (it becomes Dirty);
\* getSpans for another, Clean line right after the edit runs no scan and
\* returns the spans that record held before the edit.
C3_EditIsLocal ==
  [][ /\ lastOp'.op = "edit"
           => /\ Len(records') = Len(records)
              /\ Rec(records', lastOp'.index).dirty
              /\ \A k \in DOMAIN records :
                   k # lastOp'.index + 1 => records'[k] = records[k]
      /\ (/\ lastOp'.op = "getSpans"
          /\ lastOp.op = "edit"
          /\ lastOp'.index # lastOp.index
          /\ InRange(records, lastOp'.index)
          /\ ~Rec(records, lastOp'.index).dirty)
           => /\ ~lastOp'.scanned
              /\ lastOp'.result = Rec(records, lastOp'.index).spans
              /\ records' = records
              /\ spellcheckCache' = spellcheckCache
    ]_vars

\* right after an edit of another line, a Clean line is read without a scan
\* while the edited line is still Dirty
C3_Witness ==
  /\ lastOp.op = "getSpans"
  /\ lastOp.prevOp = "edit"
  /\ ~lastOp.scanned
  /\ InRange(records, lastOp.index)
  /\ lastOp.result # <<>>
  /\ \E k \in DOMAIN records : k # lastOp.index + 1 /\ records[k].dirty

\* C9: getSpans for an index that is not a line of the buffer returns the
\* empty sequence, runs no scan, and leaves the records and the cache as
\* they were.
C9_MissingLineIsNoOp ==
  [][ (lastOp'.op = "getSpans" /\ ~InRange(records, lastOp'.index))
        => /\ lastOp'.result = <<>>
           /\ ~lastOp'.scanned
           /\ records' = records
           /\ spellcheckCache' = spellcheckCache
    ]_vars

\* the last line was deleted and is then asked for, while the line that is
\* now last is Dirty
C9_Witness ==
  /\ lastOp.op = "getSpans"
  /\ lastOp.prevOp = "delete"
  /\ lastOp.index = Len(records)
  /\ lastOp.result = <<>>
  /\ records # <<>>
  /\ records[Len(records)].dirty
  /\ spellcheckCache = EmptyCache

(***************************************************************************)
(* Claims about the dictionary lookup cache (SpecCache)                    *)
(***************************************************************************)
\* this step is a call of check
CheckStep == lastCheck'.tick # lastCheck.tick

\* this step is the listener handling an 'invalidate-dict' message
InvalidationStep ==
  /\ ipcQueue # <<>>
  /\ Head(ipcQueue).command = "invalidate-dict"
  /\ ipcQueue' = Tail(ipcQueue)

AsAnswer(b) == IF b THEN "true" ELSE "false"

\* C4: when the dictionary answers "not ready" (undefined) for a term,
\* check returns true and writes no cache entry, and the next check of the
\* same term asks the dictionary again.
C4_FailOpenNotCached ==
  /\ (lastCheck.called /\ lastCheck.answer = "undefined")
       => /\ lastCheck.result = TRUE
          /\ lastCheck.term \notin DOMAIN spellcheckCache
  /\ (lastCheck.called /\ lastCheck.prevAnswer = "undefined"
        /\ lastCheck.prevTerm = lastCheck.term)
       => lastCheck.queried

\* a second check of a term whose first check was answered "not ready"
C4_Witness ==
  /\ lastCheck.called
  /\ lastCheck.prevAnswer = "undefined"
  /\ lastCheck.prevTerm = lastCheck.term
  /\ lastCheck.answer = "false"

C6_InvalidationClears ==
  [][ /\ InvalidationStep => spellcheckCache' = EmptyCache
      /\ (CheckStep /\ lastCheck'.first) => lastCheck'.queried
    ]_vars

\* a term the invalidation dropped is checked again and asked for afresh
C6_Witness ==
  /\ lastCheck.called
  /\ lastCheck.first
  /\ lastCheck.queried
  /\ lastCheck.term \in dropped
  /\ sinceInv = { lastCheck.term }

(***************************************************************************)
(* Claims about the tokenizer (SpecTok)                                    *)
(***************************************************************************)
SpecialKinds == { "Link", "Tag", "Code", "FootnoteRef" }

\* the stretch of the line a token covers
TextOf(t) == Slice(line, t.start, t.end)

SpanTexts(sp) == [i \in DOMAIN sp |-> TextOf(sp[i])]

RemoveDelims(s) == SelectSeq(s, LAMBDA ch : ch \notin delim)

\* offset q lies inside one of the spans
Covered(q) ==
  \E i \in DOMAIN tokens :
    /\ tokens[i].kind # "Delim"
    /\ tokens[i].start <= q
    /\ q < tokens[i].end

LineDone == pos = Len(line)

\* C7 (as stated): the spans are ordered and disjoint, and concatenated they
\* are exactly the non-delimiter characters of the line; an empty line has
\* no spans.
C7_SpansAreTheNonDelimiters ==
  LET sp == Spans(tokens)
  IN  /\ \A i, j \in DOMAIN sp : i < j => sp[i].end <= sp[j].start
      /\ LineDone => Flatten(SpanTexts(sp)) = RemoveDelims(line)
      /\ line = <<>> => sp = <<>>

\* C7 (amended): the spans are non-empty stretches of the line, ordered by
\* start offset and disjoint; every character of the line outside the spans
\* is a delimiter (a link, tag, code, footnote or URL span keeps the
\* delimiters inside it), so the spans and the line agree once delimiters
\* are taken out of both; an empty line has no spans.
C7_OnlyDelimitersDropped ==
  LET sp == Spans(tokens)
  IN  /\ pos <= Len(line)
      /\ \A i \in DOMAIN sp : sp[i].start < sp[i].end /\ sp[i].end <= pos
      /\ \A i, j \in DOMAIN sp : i < j => sp[i].end <= sp[j].start
      /\ \A q \in 0..(pos - 1) : q < Len(line) /\ ~Covered(q) => line[q + 1] \in delim
      /\ LineDone => RemoveDelims(Flatten(SpanTexts(sp))) = RemoveDelims(line)
      /\ line = <<>> => sp = <<>>

\* a finished line with a word, a special span that holds a delimiter, and
\* a delimiter dropped between spans
C7_Witness ==
  /\ LineDone
  /\ \E i \in DOMAIN tokens : tokens[i].kind = "Word"
  /\ \E i \in DOMAIN tokens : tokens[i].kind = "Delim"
  /\ \E i \in DOMAIN tokens :
       /\ tokens[i].kind \in SpecialKinds
       /\ RemoveDelims(TextOf(tokens[i])) # TextOf(tokens[i])

\* C8: at every offset the matchers are tried in the order link, tag,
\* inline code, footnote reference and the first that matches decides the
\* token; what a special span covers is one token that is never checked,
\* and no Word token lies inside it.
C8_PriorityOrder ==
  /\ \A i \in DOMAIN tokens :
       LET t  == tokens[i]
           ls == linkCfg.linkStart
           lm == IF ls = <<>> THEN 0 ELSE LinkMatch(line, t.start, ls, linkCfg.linkEnd)
           tm == TagMatch(line, t.start)
           cm == CodeMatch(line, t.start)
           fm == FootnoteMatch(line, t.start)
       IN  /\ lm > 0 => t.kind = "Link" /\ t.end = t.start + lm
           /\ (lm = 0 /\ tm > 0) => t.kind = "Tag" /\ t.end = t.start + tm
           /\ (lm = 0 /\ tm = 0 /\ cm > 0) => t.kind = "Code" /\ t.end = t.start + cm
           /\ (lm = 0 /\ tm = 0 /\ cm = 0 /\ fm > 0)
                => t.kind = "FootnoteRef" /\ t.end = t.start + fm
           /\ (lm = 0 /\ tm = 0 /\ cm = 0 /\ fm = 0) => t.kind \notin SpecialKinds
           /\ t.kind # "Word" => t.style = "null" /\ t.word = <<>>
  /\ \A i, j \in DOMAIN tokens :
       (tokens[i].kind \in SpecialKinds /\ tokens[j].kind = "Word")
         => \/ tokens[j].start >= tokens[i].end
            \/ tokens[j].end <= tokens[i].start

\* a link span that won over the tag matcher at the same offset, with a
\* letter inside it, next to a word that was checked
C8_Witness ==
  /\ LineDone
  /\ \E i \in DOMAIN tokens :
       /\ tokens[i].kind = "Link"
       /\ TagMatch(line, tokens[i].start) > 0
       /\ TagMatch(line, tokens[i].start) # tokens[i].end - tokens[i].start
       /\ \E q \in tokens[i].start..(tokens[i].end - 1) : line[q + 1] = "a"
  /\ \E j \in DOMAIN tokens : tokens[j].kind = "Word"

(***************************************************************************)
(* Recent documents provider.  A document is identified by its path (a     *)
(* number); the OS-level recent-documents menu is outside the model.       *)
(***************************************************************************)
\* offset of the first entry with this path, -1 for none (find + indexOf)
IndexOfPath(docs, path) ==
  IF \E k \in DOMAIN docs : docs[k] = path
  THEN Min({ k \in DOMAIN docs : docs[k] = path }) - 1
  ELSE -1

\* Array.splice(k, 1)
RemoveAt(docs, k) == SubSeq(docs, 1, k) \o SubSeq(docs, k + 2, Len(docs))

\* a cut that keeps the last n entries instead of the first n
TruncateTail(docs, n) ==
  SubSeq(docs, IF Len(docs) < n THEN 1 ELSE Len(docs) - n + 1, Len(docs))

\* Array.slice(0, n)
Truncate(docs, n) == SubSeq(docs, 1, IF Len(docs) < n THEN Len(docs) ELSE n)

\* add without the cut to MaxRecent entries
AddDocNoTruncate(docs, doc) ==
  LET k == IndexOfPath(docs, doc)
  IN  <<doc>> \o (IF k >= 0 THEN RemoveAt(docs, k) ELSE docs)

\* global.recentDocs.add(doc): the list afterwards
AddDoc(docs, doc) ==
  LET k    == IndexOfPath(docs, doc)
      rest == IF k >= 0 THEN RemoveAt(docs, k) ELSE docs
  IN  Truncate(<<doc>> \o rest, MaxRecent)

\* the documents a caller hands to add: one whose path is not in the list
\* (the next unused path), the most recent one again, or the first ever
Max(S) == CHOOSE x \in S : \A y \in S : x >= y

Candidates(docs) ==
  LET top == IF docs = <<>> THEN 0 ELSE Max({ docs[k] : k \in DOMAIN docs })
  IN  { d \in { top + 1, 1 } \cup (IF docs = <<>> THEN {} ELSE { Head(docs) }) :
        d <= MaxPath }

InitRecent ==
  /\ TokIdle
  /\ CacheIdle
  /\ dictReady = FALSE
  /\ dictWords = {}
  /\ records = <<>>
  /\ lastOp = NoOp
  /\ RecentIdle
  /\ EdIdle

\* get: a copy of the list made by a JSON round trip; a document is
\* identified by its path, which the round trip reads and writes back
Get(docs) == [k \in 1..Len(docs) |-> docs[k]]

\* hasDocs
HasDocs(docs) == Len(docs) > 0

\* what a listener of 'update' that calls get and hasDocs is given
Seen(docs) == [list |-> Get(docs), hasDocs |-> HasDocs(docs)]

\* an add that emits 'update' right after the insertion, before the cut
AddEmitsBeforeSlice(docs, doc) == << Seen(AddDocNoTruncate(docs, doc)) >>

\* add: the emissions of 'update' during one call, each with what its
\* listeners see; emit runs the listeners at once, after the cut
AddEmits(docs, doc) == << Seen(AddDoc(docs, doc)) >>

\* clear: the emissions of 'update' during one call
ClearEmits == << Seen(<<>>) >>

Add(doc) ==
  /\ recentDocs' = AddDoc(recentDocs, doc)
  /\ recentCall' = [op |-> "add", doc |-> doc, size |-> Len(recentDocs),
                    known |-> IndexOfPath(recentDocs, doc) >= 0,
                    emits |-> AddEmits(recentDocs, doc)]
  /\ UNCHANGED <<tokVars, cacheVars, pipeVars, edVars>>

Clear ==
  /\ recentDocs' = <<>>
  /\ recentCall' = [op |-> "clear", doc |-> 0, size |-> Len(recentDocs),
                    known |-> FALSE, emits |-> ClearEmits]
  /\ UNCHANGED <<tokVars, cacheVars, pipeVars, edVars>>

NextRecent ==
  \/ \E doc \in Candidates(recentDocs) : Add(doc)
  \/ Clear

SpecRecent == InitRecent /\ [][NextRecent]_vars

(***************************************************************************)
(* Claims about the recent documents provider (SpecRecent)                 *)
(***************************************************************************)
\* C10: after any sequence of add and clear calls the list of recent
\* documents holds at most 100 entries.
C10_AtMostHundred == Len(recentDocs) <= MaxRecent

\* the list is full and its newest entry is the 101st distinct path: the
\* add that put it there pushed the oldest entry out
C10_Witness ==
  /\ Len(recentDocs) = MaxRecent
  /\ Head(recentDocs) = MaxRecent + 1
  /\ \A k \in DOMAIN recentDocs : recentDocs[k] # 1

\* C11: after add(doc), doc is the first entry of the list returned by get
\* and the other entries follow in the order they had before; when a path
\* that is not in the list is added to a list of 100 entries, the entry
\* that leaves the list is the last one.
C11_AddPutsFirst ==
  [][recentCall'.op = "add" =>
       LET doc  == recentCall'.doc
           rest == SelectSeq(recentDocs, LAMBDA e : e # doc)
           got  == Get(recentDocs')
       IN  /\ got # <<>>
           /\ Head(got) = doc
           /\ Tail(got) = SubSeq(rest, 1, Len(got) - 1)
           /\ (Len(recentDocs) = MaxRecent /\ Len(rest) = MaxRecent)
                => got = <<doc>> \o SubSeq(recentDocs, 1, MaxRecent - 1)]_vars

\* a path that was not in the full list has just been added: it is first,
\* the former first entry is second, and the former last entry is gone
C11_Witness ==
  /\ recentCall.op = "add"
  /\ recentCall.size = MaxRecent
  /\ ~recentCall.known
  /\ Get(recentDocs)[1] = recentCall.doc
  /\ Get(recentDocs)[2] = MaxRecent
  /\ Get(recentDocs)[MaxRecent] = 2

\* C12: every call of add and of clear emits 'update' exactly once, and the
\* listeners that read the list with get or hasDocs during that emission
\* see the list the call leaves behind (insertion and cut to 100 entries
\* done, or the list emptied).
C12_OneUpdateAfterChange ==
  recentCall.op \in { "add", "clear" } =>
    /\ Len(recentCall.emits) = 1
    /\ recentCall.emits[1].list = Get(recentDocs)
    /\ recentCall.emits[1].hasDocs = HasDocs(recentDocs)

\* an add that had to cut the list has emitted: its listener saw 100 entries
C12_Witness ==
  /\ recentCall.op = "add"
  /\ recentCall.size = MaxRecent
  /\ ~recentCall.known
  /\ Len(recentCall.emits) = 1
  /\ Len(recentCall.emits[1].list) = MaxRecent
  /\ recentCall.emits[1].hasDocs

(***************************************************************************)
(* The Editor component: the documents it has loaded, the watchers of the  *)
(* store's activeFile and openFiles, the get-file-contents and file-save   *)
(* requests to the main process and their responses.  A document object    *)
(* is an entry of cmDocs, named by its index; its contents are a version   *)
(* number that every edit raises.                                          *)
(***************************************************************************)
\* Array.includes
Includes(seq, e) == \E k \in DOMAIN seq : seq[k] = e

\* Array.findIndex(x => x === e) and Array.indexOf(e): 0-based, -1 for none
FindIndex(seq, e) ==
  IF Includes(seq, e) THEN Min({ k \in DOMAIN seq : seq[k] = e }) - 1 ELSE -1

\* Array.splice(idx, 1): a negative idx counts from the end
Splice(seq, idx) ==
  LET from == IF idx < 0
              THEN (IF Len(seq) + idx < 0 THEN 0 ELSE Len(seq) + idx)
              ELSE (IF idx > Len(seq) THEN Len(seq) ELSE idx)
  IN  SubSeq(seq, 1, from) \o SubSeq(seq, from + 2, Len(seq))

\* openDocuments.find(doc => doc.path === path): the first one, or NoDoc
FindDoc(docs, open, path) ==
  IF \E k \in DOMAIN open : docs[open[k]].path = path
  THEN open[Min({ k \in DOMAIN open : docs[open[k]].path = path })]
  ELSE NoDoc

\* a watcher that asks for the file whether or not it is being fetched
ShouldRequestAlways(fetching, path) == TRUE

\* the condition under which the activeFile watcher asks for a file that
\* is not loaded
ShouldRequest(fetching, path) == ~Includes(fetching, path)

\* the openFiles watcher: for (const doc of openDocuments) with a splice
\* inside the loop; i is the iterator's 0-based position, which moves on by
\* one after every pass and is compared with the current length
RECURSIVE RemoveClosed(_, _, _, _)
RemoveClosed(docs, open, files, i) ==
  IF i >= Len(open)
  THEN open
  ELSE IF docs[open[i + 1]].path \in files
       THEN RemoveClosed(docs, open, files, i + 1)
       ELSE CHOOSE r \in { RemoveClosed(docs, rest, files, i + 1) :
                           rest \in { Splice(open, FindIndex(open, open[i + 1])) } } : TRUE

\* CodeMirror.Doc(content, mode): a new document is clean
NewDoc(path) == [path |-> path, value |-> 0, clean |-> TRUE]

\* the document objects some reference still leads to: the entries of
\* openDocuments, activeDocument, the editor's document, and the documents
\* whose contents a file-save request in flight carries
Live(open, active, shown, saves) ==
  { open[k] : k \in DOMAIN open } \cup { active, shown }
    \cup { saves[k].doc : k \in DOMAIN saves }

\* the heap after a step: an object that nothing refers to any more cannot
\* be read or changed again, so only its path is kept
Collect(docs, live) ==
  [id \in DOMAIN docs |-> IF id \in live THEN docs[id] ELSE NewDoc(docs[id].path)]

RECURSIVE Sum(_, _)
Sum(f, S) ==
  IF S = {} THEN 0
  ELSE LET x == CHOOSE y \in S : TRUE IN f[x] + Sum(f, S \ { x })

Step(op, path, docs, sent) == [op |-> op, path |-> path, docs |-> docs, sent |-> sent]

InitEditor ==
  /\ TokIdle
  /\ CacheIdle
  /\ dictReady = FALSE
  /\ dictWords = {}
  /\ records = <<>>
  /\ lastOp = NoOp
  /\ RecentIdle
  /\ EdIdle

edFrame == <<tokVars, cacheVars, pipeVars, recentVars>>

\* the store's activeFile changes and the activeFile watcher runs
SetActiveFile(f) ==
  /\ activeFile' = f
  /\ IF f = NoFile
     THEN /\ editorDoc' = NoDoc
          /\ readOnly' = TRUE
          /\ UNCHANGED <<activeDocument, currentlyFetchingFiles, pendingFetch>>
     ELSE LET doc == FindDoc(cmDocs, openDocuments, f)
          IN  IF doc # NoDoc
              THEN /\ editorDoc' = doc
                   /\ activeDocument' = doc
                   /\ readOnly' = FALSE
                            /\ UNCHANGED <<currentlyFetchingFiles, pendingFetch>>
              ELSE IF ShouldRequest(currentlyFetchingFiles, f)
                   THEN /\ Len(cmDocs) + Sum(pendingFetch, Paths) < MaxDocs
                        /\ currentlyFetchingFiles' = Append(currentlyFetchingFiles, f)
                        /\ pendingFetch' = [pendingFetch EXCEPT ![f] = @ + 1]
                                      /\ UNCHANGED <<editorDoc, activeDocument, readOnly>>
                   ELSE UNCHANGED <<editorDoc, activeDocument, readOnly,
                                    currentlyFetchingFiles, pendingFetch>>
  /\ edLast' = Step("activeFile", NoFile, {}, <<>>)
  /\ cmDocs' = Collect(cmDocs, Live(openDocuments, activeDocument', editorDoc', pendingSave))
  /\ UNCHANGED <<openFiles, openDocuments, pendingSave, edFrame>>

\* the get-file-contents request for path resolves with the file's descriptor
FetchResolved(path) ==
  /\ pendingFetch[path] > 0
  /\ pendingFetch' = [pendingFetch EXCEPT ![path] = @ - 1]
  /\ IF activeFile = NoFile
     THEN \* this.activeFile.ext throws; the catch at the end logs the error
          /\ edLast' = Step("fetched", path, {}, <<>>)
          /\ UNCHANGED <<cmDocs, openDocuments, currentlyFetchingFiles, editorDoc,
                         activeDocument, readOnly>>
     ELSE LET id == Len(cmDocs) + 1
          IN  /\ openDocuments' = Append(openDocuments, id)
              /\ currentlyFetchingFiles' =
                   Splice(currentlyFetchingFiles, FindIndex(currentlyFetchingFiles, path))
              /\ edLast' = Step("fetched", path, {}, <<>>)
              /\ IF activeFile = path
                 THEN /\ editorDoc' = id
                      /\ activeDocument' = id
                      /\ readOnly' = FALSE
                 ELSE UNCHANGED <<editorDoc, activeDocument, readOnly>>
              /\ cmDocs' = Collect(Append(cmDocs, NewDoc(path)),
                                   Live(openDocuments', activeDocument', editorDoc',
                                        pendingSave))
  /\ UNCHANGED <<activeFile, openFiles, pendingSave, edFrame>>

\* the get-file-contents request for path is rejected: the error is logged
FetchRejected(path) ==
  /\ pendingFetch[path] > 0
  /\ pendingFetch' = [pendingFetch EXCEPT ![path] = @ - 1]
  /\ edLast' = Step("rejected", NoFile, {}, <<>>)
  /\ UNCHANGED <<activeFile, openFiles, cmDocs, openDocuments, currentlyFetchingFiles,
                 activeDocument, editorDoc, readOnly, pendingSave, edFrame>>

\* the store's openFiles changes and the openFiles watcher runs
SetOpenFiles(files) ==
  /\ files # openFiles
  /\ openFiles' = files
  /\ openDocuments' = RemoveClosed(cmDocs, openDocuments, files, 0)
  /\ edLast' = Step("openFiles", NoFile, {}, <<>>)
  /\ cmDocs' = Collect(cmDocs, Live(openDocuments', activeDocument, editorDoc, pendingSave))
  /\ UNCHANGED <<activeFile, currentlyFetchingFiles, activeDocument, editorDoc,
                 readOnly, pendingFetch, pendingSave, edFrame>>

\* the user changes the document the editor shows
Edit ==
  /\ editorDoc # NoDoc
  /\ ~readOnly
  /\ cmDocs[editorDoc].value < MaxEdits
  /\ cmDocs' = [cmDocs EXCEPT ![editorDoc] =
                  [@ EXCEPT !.value = @ + 1, !.clean = FALSE]]
  /\ edLast' = Step("edit", NoFile, {}, <<>>)
  /\ UNCHANGED <<activeFile, openFiles, openDocuments, currentlyFetchingFiles,
                 activeDocument, editorDoc, readOnly, pendingFetch, pendingSave, edFrame>>

\* the 'save-file' shortcut arrives: save()
SaveShortcut ==
  /\ IF activeDocument = NoDoc
     THEN \* this.activeDocument.cmDoc throws inside the listener
          /\ edLast' = Step("save", NoFile, {}, <<>>)
          /\ UNCHANGED pendingSave
     ELSE IF cmDocs[activeDocument].clean
          THEN /\ edLast' = Step("save", NoFile, {}, <<>>)
               /\ UNCHANGED pendingSave
          ELSE LET descriptor == [doc |-> activeDocument,
                                  path |-> cmDocs[activeDocument].path,
                                  newContents |-> cmDocs[activeDocument].value]
               IN  /\ Len(pendingSave) < MaxSaves
                   /\ pendingSave' = Append(pendingSave, descriptor)
                   /\ edLast' = Step("save", NoFile, { activeDocument }, <<>>)
  /\ UNCHANGED <<activeFile, openFiles, cmDocs, openDocuments, currentlyFetchingFiles,
                 activeDocument, editorDoc, readOnly, pendingFetch, edFrame>>

\* the k-th file-save request settles; result is TRUE when the main process
\* answers true, FALSE for any other answer and for a rejection
SaveSettled(k, result) ==
  /\ k \in DOMAIN pendingSave
  /\ pendingSave' = Splice(pendingSave, k - 1)
  /\ IF result
     THEN /\ cmDocs' = Collect([cmDocs EXCEPT ![activeDocument] = [@ EXCEPT !.clean = TRUE]],
                               Live(openDocuments, activeDocument, editorDoc, pendingSave'))
          /\ edLast' = Step("saved", NoFile,
                            IF cmDocs[activeDocument].clean THEN {} ELSE { activeDocument },
                            << pendingSave[k] >>)
     ELSE /\ edLast' = Step("notSaved", NoFile, {}, <<>>)
          /\ cmDocs' = Collect(cmDocs,
                               Live(openDocuments, activeDocument, editorDoc, pendingSave'))
  /\ UNCHANGED <<activeFile, openFiles, openDocuments, currentlyFetchingFiles,
                 activeDocument, editorDoc, readOnly, pendingFetch, edFrame>>

NextEditor ==
  \/ \E f \in openFiles \cup { NoFile } : SetActiveFile(f)
  \/ \E path \in Paths : FetchResolved(path)
  \/ \E path \in Paths : FetchRejected(path)
  \/ \E files \in SUBSET Paths : SetOpenFiles(files)
  \/ Edit
  \/ SaveShortcut
  \/ \E k \in 1..MaxSaves, result \in BOOLEAN : SaveSettled(k, result)

SpecEditor == InitEditor /\ [][NextEditor]_vars

(***************************************************************************)
(* Claims about the Editor component (SpecEditor)                          *)
(***************************************************************************)
IsOpen(id) == Includes(openDocuments, id)

\* C13: after the openFiles watcher has run once, openDocuments holds no
\* document whose path is not among the store's openFiles.
C13_WatcherRemovesAllClosed ==
  edLast.op = "openFiles" =>
    \A k \in DOMAIN openDocuments : cmDocs[openDocuments[k]].path \in openFiles

\* C14: when the save-file shortcut has been handled, a file-save request
\* has been issued for exactly the open documents that are not clean.
C14_SavesEveryModified ==
  edLast.op = "save" =>
    \A k \in DOMAIN openDocuments :
      (~cmDocs[openDocuments[k]].clean) <=> (openDocuments[k] \in edLast.docs)

\* C15: when the response for a path arrives while the active file is
\* another one or none, a document with that path is appended to
\* openDocuments, the path leaves currentlyFetchingFiles, and the document
\* shown, activeDocument and the read-only flag stay as they are.
C15_LateResponseStillLoads ==
  [][(edLast'.op = "fetched" /\ activeFile # edLast'.path) =>
       /\ Len(openDocuments') = Len(openDocuments) + 1
       /\ cmDocs'[openDocuments'[Len(openDocuments')]].path = edLast'.path
       /\ ~Includes(currentlyFetchingFiles', edLast'.path)
       /\ UNCHANGED <<editorDoc, activeDocument, readOnly>>]_vars

\* C16: a document that a successful save response marks clean is the
\* document whose contents were sent, and its contents are what was sent.
C16_CleanOnlyWhatWasSaved ==
  edLast.op = "saved" =>
    \A id \in edLast.docs :
      /\ id = edLast.sent[1].doc
      /\ cmDocs[id].value = edLast.sent[1].newContents

\* C17: a path in currentlyFetchingFiles has a get-file-contents request
\* that has not settled yet.
C17_SettledLeavesFetching ==
  \A k \in DOMAIN currentlyFetchingFiles : pendingFetch[currentlyFetchingFiles[k]] > 0

\* C18: openDocuments never holds two documents with the same path, and no
\* path has a request in flight while it is loaded or while another request
\* for it is in flight (a request made while the path is loaded or being
\* fetched leads to such a state at once).
C18_NoDuplicateNoDoubleRequest ==
  /\ \A j, k \in DOMAIN openDocuments :
       cmDocs[openDocuments[j]].path = cmDocs[openDocuments[k]].path => j = k
  /\ \A path \in Paths :
       /\ pendingFetch[path] <= 1
       /\ pendingFetch[path] = 1 => FindDoc(cmDocs, openDocuments, path) = NoDoc

\* a file was loaded, closed and loaded again: two document objects of one
\* path exist and only the later one is in openDocuments
C18_Witness ==
  \E a, b \in DOMAIN cmDocs :
    /\ a # b
    /\ cmDocs[a].path = cmDocs[b].path
    /\ ~IsOpen(a)
    /\ IsOpen(b)

====
